---- MODULE Spec2Model ----
(***************************************************************************)
(* A model of StudentFingerprintReader (src/Reader.py): the similarity     *)
(* scorer (calculate_similarity), the 1:N identification scan              *)
(* (match_fingerprint) and the enrollment workflow (enroll_fingerprint),   *)
(* together with the database connection they share.                       *)
(*                                                                         *)
(* Python floats are modelled as exact rationals [num, den] in lowest      *)
(* terms with den > 0; every comparison the code makes between scores is   *)
(* made here on those rationals.                                           *)
(***************************************************************************)
EXTENDS Integers, Sequences, FiniteSets, TLC

VARIABLES
    connection,      \* self.connection: "none" (None), "open", "closed" (object present, is_connected() false)
    students,        \* the students table: student_id of each row -> fingerprint_template column
    op,              \* the method that ran last
    student_id,      \* enroll_fingerprint's argument ("" when the last call had none)
    template,        \* match_fingerprint's input_template / the template scan_fingerprint returned to enroll
    results,         \* the rows cursor.fetchall() returned to match_fingerprint, in table order
    ret,             \* what the last call returned, or the exception that escaped it
    msg,             \* the message the last call printed last
    best_score,      \* match_fingerprint's best_score when it returned
    scored,          \* the students calculate_similarity returned a score for, in scan order
    skipped,         \* the students whose processing raised inside the scan loop
    features1,       \* calculate_similarity's first argument (scorer specification)
    features2,       \* calculate_similarity's second argument (scorer specification)
    similarity       \* calculate_similarity's outcome (scorer specification)

vars == <<connection, students, op, student_id, template, results, ret, msg,
          best_score, scored, skipped, features1, features2, similarity>>

\* ------------------------------------------------------------------ bounds
\* The longest feature list of a template.
MaxBlobs == 2

\* ------------------------------------------------- exact rational numbers
Abs(x) == IF x < 0 THEN -x ELSE x

RECURSIVE GCD(_, _)
GCD(a, b) == IF b = 0 THEN a ELSE GCD(b, a % b)

\* n/d in lowest terms, d # 0.
Rat(n, d) ==
    LET s == IF d < 0 THEN -1 ELSE 1
        g == GCD(Abs(n), Abs(d))
    IN  [num |-> (s * n) \div g, den |-> (s * d) \div g]

RAdd(x, y) == Rat(x.num * y.den + y.num * x.den, x.den * y.den)
RSub(x, y) == Rat(x.num * y.den - y.num * x.den, x.den * y.den)
RMul(x, y) == Rat(x.num * y.num, x.den * y.den)
\* y # 0
RDiv(x, y) == Rat(x.num * y.den, x.den * y.num)
RLt(x, y) == x.num * y.den < y.num * x.den
RGt(x, y) == RLt(y, x)
RGe(x, y) == ~RLt(x, y)
RAbs(x) == [num |-> Abs(x.num), den |-> x.den]
\* Python's max(x, y) and min(x, y): the first argument unless the second is
\* strictly larger / smaller.
RMax(x, y) == IF RGt(y, x) THEN y ELSE x
RMin(x, y) == IF RLt(y, x) THEN y ELSE x

Zero == Rat(0, 1)
One == Rat(1, 1)

\* ------------------------------------------------------ outcomes of a call
Returned(v) == [kind |-> "return", val |-> v]
Raised(e) == [kind |-> "raise", exc |-> e]

\* --------------------------------------------------------------- templates
\* A feature as json.loads yields it: a dict. Only the key 'area' is ever read
\* (line 253); a dict without it is a feature whose read raises KeyError.
Blob(a) == [area |-> a]
NoAreaBlob == [perimeter |-> 30]

RECURSIVE SeqsUpTo(_, _)
\* The sequences over S of length at most n.
SeqsUpTo(S, n) ==
    IF n = 0 THEN {<<>>}
    ELSE LET shorter == SeqsUpTo(S, n - 1)
         IN  shorter \cup {Append(s, x) : s \in {t \in shorter : Len(t) = n - 1}, x \in S}

\* A template string: base64 of a JSON object with a 'features' list ...
TemplateString(features) == [fmt |-> "b64json", features |-> features]
\* ... base64 of a JSON object without the key 'features' ...
NoFeaturesKey == [fmt |-> "b64json"]
\* ... and a string that is not base64 of a JSON object at all.
Garbage == [fmt |-> "garbage"]
\* The SQL NULL of the fingerprint_template column, and Python's None.
NULL == [fmt |-> "null"]

\* json.loads(base64.b64decode(s).decode()).get('features', []) (lines 192-193,
\* 205-206): raises on a string that does not decode to a JSON object, defaults
\* to [] when the key is missing.
decode_features(s) ==
    IF s.fmt # "b64json" THEN Raised("ValueError")
    ELSE IF "features" \in DOMAIN s THEN Returned(s.features)
    ELSE Returned(<<>>)

\* ------------------------------------------------------- similarity scorer
RECURSIVE SumAreas(_)
SumAreas(fs) == IF fs = <<>> THEN 0 ELSE Head(fs).area + SumAreas(Tail(fs))

\* A plausible slip: the first list's length where the shorter one's belongs.
count_similarity_first(f1, f2) ==
    Rat(Len(f1), IF Len(f1) > Len(f2) THEN Len(f1) ELSE Len(f2))

\* line 250
count_similarity(f1, f2) ==
    Rat(IF Len(f1) < Len(f2) THEN Len(f1) ELSE Len(f2),
        IF Len(f1) > Len(f2) THEN Len(f1) ELSE Len(f2))

\* lines 257-258
avg_area(fs) == Rat(SumAreas(fs), Len(fs))

\* line 259; the caller guarantees max(avg_area1, avg_area2) # 0
area_similarity(avg_area1, avg_area2) ==
    RSub(One, RDiv(RAbs(RSub(avg_area1, avg_area2)), RMax(avg_area1, avg_area2)))

\* A plausible slip: the two weights exchanged.
weighted_swapped(cs, as) == RAdd(RMul(Rat(4, 10), cs), RMul(Rat(6, 10), as))

\* line 264
weighted(cs, as) == RAdd(RMul(Rat(6, 10), cs), RMul(Rat(4, 10), as))

\* line 266
clamp(x) == RMin(One, RMax(Zero, x))

\* lines 243-266. With both lists non-empty the test of line 256 always holds,
\* so its else branch (line 261) is never taken.
calculate_similarity(f1, f2) ==
    IF f1 = <<>> \/ f2 = <<>> THEN Returned(Zero)
    ELSE IF \E i \in 1..Len(f1) : "area" \notin DOMAIN f1[i] THEN Raised("KeyError")
    ELSE IF \E i \in 1..Len(f2) : "area" \notin DOMAIN f2[i] THEN Raised("KeyError")
    ELSE LET avg_area1 == avg_area(f1)
             avg_area2 == avg_area(f2)
         IN  IF RMax(avg_area1, avg_area2) = Zero THEN Raised("ZeroDivisionError")
             ELSE Returned(clamp(weighted(count_similarity(f1, f2),
                                          area_similarity(avg_area1, avg_area2))))

\* ------------------------------------------------------------- the database
\* The rows of the students table, in the order a SELECT returns them.
Rows == <<"S1", "S2">>
RowIds == {Rows[i] : i \in 1..Len(Rows)}
\* What a user may type as a student ID: "S3" has no row in the table.
StudentIds == RowIds \cup {"S3"}

\* Blob areas of the templates in the store.
Areas == {60, 240}
Features == SeqsUpTo({Blob(a) : a \in Areas}, MaxBlobs)
\* The strings the fingerprint_template column or a caller may hold.
TemplateStrings ==
    {Garbage, NoFeaturesKey, TemplateString(<<NoAreaBlob>>)}
        \cup {TemplateString(f) : f \in Features}

\* ------------------------------------------------------------------ capture
\* The contours cv2.findContours may report: area and perimeter.
Contours == {[area |-> 40, perimeter |-> 30], [area |-> 60, perimeter |-> 30],
             [area |-> 240, perimeter |-> 0]}

\* lines 70-92: keep the contours with area > 50 and perimeter > 0, in detection
\* order, and encode the list.
RECURSIVE FeaturesOf(_)
FeaturesOf(contours) ==
    IF contours = <<>> THEN <<>>
    ELSE IF Head(contours).area > 50 /\ Head(contours).perimeter > 0
    THEN <<Blob(Head(contours).area)>> \o FeaturesOf(Tail(contours))
    ELSE FeaturesOf(Tail(contours))

extract_fingerprint_features(contours) == TemplateString(FeaturesOf(contours))

\* lines 100-146: the template of a captured frame, or None (no camera, a failed
\* read, the user quit).
scan_fingerprint ==
    {NULL} \cup {extract_fingerprint_features(c) : c \in SeqsUpTo(Contours, MaxBlobs)}

\* ----------------------------------------------------------- identification
\* A plausible slip: a laxer acceptance threshold.
threshold_half == Rat(1, 2)

\* line 200
threshold == Rat(7, 10)

\* A plausible slip: >= where the code replaces on strictly greater only.
better_or_equal(sim, best) == RGe(sim, best) /\ RGt(sim, threshold)

\* A plausible slip: the acceptance threshold left out of the test.
better_no_threshold(sim, best) == RGe(sim, best)

\* line 211
better(sim, best) == RGt(sim, best) /\ RGt(sim, threshold)

\* lines 198-199: the scan's variables before the first candidate.
ScanStart == [best_match |-> "None", best_score |-> Zero,
              scored |-> <<>>, skipped |-> <<>>]

\* lines 203-217: one iteration of the loop on the row `student`.
ScanStep(input_features, student, st) ==
    LET stored == decode_features(student.fingerprint_template)
        sim == IF stored.kind = "raise" THEN stored
               ELSE calculate_similarity(input_features, stored.val)
    IN  IF sim.kind = "raise"
        THEN [st EXCEPT !.skipped = Append(@, student.student_id)]
        ELSE IF better(sim.val, st.best_score)
        THEN [st EXCEPT !.best_score = sim.val,
                        !.best_match = student.student_id,
                        !.scored = Append(@, student.student_id)]
        ELSE [st EXCEPT !.scored = Append(@, student.student_id)]

RECURSIVE ScanFrom(_, _, _, _)
ScanFrom(input_features, rows, i, st) ==
    IF i > Len(rows) THEN st
    ELSE ScanFrom(input_features, rows, i + 1, ScanStep(input_features, rows[i], st))

\* The rows before the first one whose processing raises.
RECURSIVE UntilFirstError(_, _)
UntilFirstError(input_features, rows) ==
    IF rows = <<>> THEN <<>>
    ELSE LET stored == decode_features(Head(rows).fingerprint_template)
         IN  IF stored.kind = "raise"
                \/ calculate_similarity(input_features, stored.val).kind = "raise"
             THEN <<>>
             ELSE <<Head(rows)>> \o UntilFirstError(input_features, Tail(rows))

\* A plausible slip: break where the code continues after a bad candidate.
Scan_break(input_features, rows) ==
    ScanFrom(input_features, UntilFirstError(input_features, rows), 1, ScanStart)

\* lines 198-217: the whole loop over the fetched rows.
Scan(input_features, rows) == ScanFrom(input_features, rows, 1, ScanStart)

\* lines 166-183: the rows whose fingerprint_template IS NOT NULL.
RECURSIVE SelectFrom(_, _)
SelectFrom(table, ids) ==
    IF ids = <<>> THEN <<>>
    ELSE IF table[Head(ids)] # NULL
    THEN <<[student_id |-> Head(ids), fingerprint_template |-> table[Head(ids)]]>>
            \o SelectFrom(table, Tail(ids))
    ELSE SelectFrom(table, Tail(ids))

SelectTemplates(table) == SelectFrom(table, Rows)

\* lines 186-226: match_fingerprint once the rows are fetched.
\* [ret, msg, best_score, scored, skipped]
Identify(input_template, rows) ==
    IF rows = <<>>
    THEN [ret |-> "None", msg |-> "No fingerprint templates found in database",
          best_score |-> Zero, scored |-> <<>>, skipped |-> <<>>]
    ELSE LET input == decode_features(input_template)
         IN  IF input.kind = "raise"
             THEN [ret |-> "None", msg |-> "Invalid fingerprint template format",
                   best_score |-> Zero, scored |-> <<>>, skipped |-> <<>>]
             ELSE LET st == Scan(input.val, rows)
                  IN  [ret |-> st.best_match,
                       msg |-> IF st.best_match # "None"
                               THEN "Fingerprint match found"
                               ELSE "No matching fingerprint found",
                       best_score |-> st.best_score,
                       scored |-> st.scored, skipped |-> st.skipped]

\* ------------------------------------------------------------ the operations
NoCall == [kind |-> "none"]

\* What the variables of a call hold when the call did not set them.
Idle(name) ==
    /\ op' = name
    /\ student_id' = ""
    /\ template' = NULL
    /\ results' = <<>>
    /\ best_score' = Zero
    /\ scored' = <<>>
    /\ skipped' = <<>>

\* lines 12-20: __init__. The table is the database's, not the reader's: it
\* starts with any content.
Init ==
    /\ connection = "none"
    /\ students \in [RowIds -> TemplateStrings \cup {NULL}]
    /\ op = "init"
    /\ student_id = ""
    /\ template = NULL
    /\ results = <<>>
    /\ ret = "None"
    /\ msg = ""
    /\ best_score = Zero
    /\ scored = <<>>
    /\ skipped = <<>>
    /\ features1 = <<>>
    /\ features2 = <<>>
    /\ similarity = NoCall

\* lines 22-35
connect_database ==
    /\ \E ok \in BOOLEAN :
        /\ connection' = IF ok THEN "open" ELSE connection
        /\ ret' = IF ok THEN "True" ELSE "False"
        /\ msg' = IF ok THEN "Database connection established successfully"
                  ELSE "Database connection failed"
    /\ Idle("connect_database")
    /\ UNCHANGED <<students, features1, features2, similarity>>

\* lines 37-41
close_database ==
    /\ connection' = IF connection = "open" THEN "closed" ELSE connection
    /\ ret' = "None"
    /\ msg' = IF connection = "open" THEN "Database connection closed" ELSE ""
    /\ Idle("close_database")
    /\ UNCHANGED <<students, features1, features2, similarity>>

\* The server goes away: is_connected() turns false under the reader.
connection_lost ==
    /\ connection = "open"
    /\ connection' = "closed"
    /\ ret' = "None"
    /\ msg' = ""
    /\ Idle("connection_lost")
    /\ UNCHANGED <<students, features1, features2, similarity>>

\* lines 148-230
match_fingerprint ==
    \E input_template \in TemplateStrings :
        /\ op' = "match_fingerprint"
        /\ student_id' = ""
        /\ template' = input_template
        /\ \/ /\ connection # "open"
              /\ ret' = "None"
              /\ msg' = "No database connection available"
              /\ results' = <<>>
              /\ best_score' = Zero
              /\ scored' = <<>>
              /\ skipped' = <<>>
              /\ UNCHANGED connection
           \/ /\ connection = "open"
              \* mysql.connector.Error out of cursor()/execute()/fetchall()
              /\ ret' = "None"
              /\ msg' = "Database query failed"
              /\ results' = <<>>
              /\ best_score' = Zero
              /\ scored' = <<>>
              /\ skipped' = <<>>
              /\ connection' \in {"open", "closed"}
           \/ /\ connection = "open"
              /\ \E out \in {Identify(input_template, SelectTemplates(students))} :
                     /\ results' = SelectTemplates(students)
                     /\ ret' = out.ret
                     /\ msg' = out.msg
                     /\ best_score' = out.best_score
                     /\ scored' = out.scored
                     /\ skipped' = out.skipped
              /\ UNCHANGED connection
        /\ UNCHANGED <<students, features1, features2, similarity>>

\* line 293: UPDATE students SET fingerprint_template = t WHERE student_id = id
\* changes the rows with that student_id, none when there is no such row.
Update(table, id, t) ==
    [r \in DOMAIN table |-> IF r = id THEN t ELSE table[r]]

\* lines 268-302
enroll_fingerprint ==
    \E id \in StudentIds, t \in scan_fingerprint :
        /\ op' = "enroll_fingerprint"
        /\ student_id' = id
        /\ template' = t
        /\ results' = <<>>
        /\ best_score' = Zero
        /\ scored' = <<>>
        /\ skipped' = <<>>
        /\ \/ /\ t = NULL
              /\ ret' = "False"
              /\ msg' = "Enrolling fingerprint for student"
              /\ UNCHANGED <<students, connection>>
           \/ /\ t # NULL
              /\ connection = "none"
              \* self.connection.cursor() on None: not a mysql.connector.Error
              /\ ret' = "AttributeError"
              /\ msg' = "Enrolling fingerprint for student"
              /\ UNCHANGED <<students, connection>>
           \/ /\ t # NULL
              /\ connection = "closed"
              \* cursor() on a connection that is not connected: OperationalError
              /\ ret' = "False"
              /\ msg' = "Database update failed"
              /\ UNCHANGED <<students, connection>>
           \/ /\ t # NULL
              /\ connection = "open"
              \* mysql.connector.Error out of cursor()/execute()/commit()
              /\ ret' = "False"
              /\ msg' = "Database update failed"
              /\ connection' \in {"open", "closed"}
              /\ UNCHANGED students
           \/ /\ t # NULL
              /\ connection = "open"
              /\ students' = Update(students, id, t)
              /\ ret' = "True"
              /\ msg' = "Fingerprint enrolled successfully"
              /\ UNCHANGED connection
        /\ UNCHANGED <<features1, features2, similarity>>

Next ==
    \/ connect_database
    \/ close_database
    \/ connection_lost
    \/ match_fingerprint
    \/ enroll_fingerprint

Spec == Init /\ [][Next]_vars

\* ------------------------------------------------ the scorer, on its own
\* Areas a decoded feature list may carry: the store is not the extractor's
\* alone, so areas at or below 50, and below 0, can reach the scorer.
ScoreAreas == {-60, 60, 240}
ScoreFeatures == SeqsUpTo({Blob(a) : a \in ScoreAreas} \cup {NoAreaBlob}, MaxBlobs)

InitScore ==
    /\ connection = "none"
    /\ students = [r \in RowIds |-> NULL]
    /\ op = "init"
    /\ student_id = ""
    /\ template = NULL
    /\ results = <<>>
    /\ ret = "None"
    /\ msg = ""
    /\ best_score = Zero
    /\ scored = <<>>
    /\ skipped = <<>>
    /\ features1 \in ScoreFeatures
    /\ features2 \in ScoreFeatures
    /\ similarity = NoCall

\* A call of calculate_similarity(features1, features2).
CallSimilarity ==
    /\ similarity = NoCall
    /\ similarity' = calculate_similarity(features1, features2)
    /\ UNCHANGED <<connection, students, op, student_id, template, results, ret,
                   msg, best_score, scored, skipped, features1, features2>>

NextScore == CallSimilarity

SpecScore == InitScore /\ [][NextScore]_vars

\* ------------------------------------------------------------------- claims
\* The last call was match_fingerprint and it fetched its rows.
Fetched ==
    /\ op = "match_fingerprint"
    /\ msg \notin {"No database connection available", "Database query failed"}

\* The score of the probe against the i-th fetched row, by the scorer.
ScoreOf(i) ==
    LET probe == decode_features(template)
        stored == decode_features(results[i].fingerprint_template)
    IN  IF probe.kind = "raise" THEN probe
        ELSE IF stored.kind = "raise" THEN stored
        ELSE calculate_similarity(probe.val, stored.val)

HasScore(i) == ScoreOf(i).kind = "return"

SevenTenths == [num |-> 7, den |-> 10]

Exceeds(i) == HasScore(i) /\ RGt(ScoreOf(i).val, SevenTenths)

\* C1: whenever match_fingerprint returns a student, the score of the probe
\* against that student's stored template is strictly greater than 0.7.
C1_ThresholdEnforced ==
    (op = "match_fingerprint" /\ ret # "None") =>
        \E i \in 1..Len(results) :
            /\ results[i].student_id = ret
            /\ Exceeds(i)

\* A student is returned although another stored template scores 0.7 or less.
C1_Witness ==
    /\ op = "match_fingerprint"
    /\ ret # "None"
    /\ \E i \in 1..Len(results) : HasScore(i) /\ ~Exceeds(i)

\* The first row whose score is the largest of all the scores.
IsFirstBest(i) ==
    /\ HasScore(i)
    /\ \A j \in 1..Len(results) : HasScore(j) => ~RGt(ScoreOf(j).val, ScoreOf(i).val)
    /\ \A j \in 1..(i - 1) : HasScore(j) => RLt(ScoreOf(j).val, ScoreOf(i).val)

\* C2: when some candidate scores strictly above 0.7, match_fingerprint returns
\* the candidate with the maximum score, the earliest one among equals.
C2_FirstBestReturned ==
    (Fetched /\ \E i \in 1..Len(results) : Exceeds(i)) =>
        \E i \in 1..Len(results) : IsFirstBest(i) /\ ret = results[i].student_id

\* Two candidates tie above the threshold and the earlier one is returned.
C2_WitnessTie ==
    /\ Fetched
    /\ Len(results) = 2
    /\ Exceeds(1) /\ Exceeds(2)
    /\ ScoreOf(1).val = ScoreOf(2).val
    /\ ret = results[1].student_id

\* The rows whose stored template decodes.
RECURSIVE WellFormed(_)
WellFormed(rows) ==
    IF rows = <<>> THEN <<>>
    ELSE IF decode_features(Head(rows).fingerprint_template).kind = "raise"
    THEN WellFormed(Tail(rows))
    ELSE <<Head(rows)>> \o WellFormed(Tail(rows))

\* C3: match_fingerprint returns on the fetched rows what it returns on the same
\* rows without the malformed ones: a malformed row never ends the scan.
C3_MalformedSkipped ==
    Fetched =>
        /\ ret = Identify(template, WellFormed(results)).ret
        /\ best_score = Identify(template, WellFormed(results)).best_score

\* A malformed row comes first and the row after it is scored and returned.
C3_Witness ==
    /\ Fetched
    /\ Len(results) = 2
    /\ decode_features(results[1].fingerprint_template).kind = "raise"
    /\ skipped = <<results[1].student_id>>
    /\ scored = <<results[2].student_id>>
    /\ ret = results[2].student_id

\* C4: a probe that cannot be decoded ends match_fingerprint for any fetched
\* rows, none included: nothing scored, nobody returned, and the invalid
\* template reported as the outcome.
C4_ProbeFailureSurfaced ==
    (Fetched /\ decode_features(template).kind = "raise") =>
        /\ ret = "None"
        /\ scored = <<>>
        /\ msg = "Invalid fingerprint template format"

\* C5: whenever enroll_fingerprint reports success, the store holds the captured
\* template for that student.
C5_EnrolledTemplateStored ==
    (op = "enroll_fingerprint" /\ ret = "True") =>
        /\ student_id \in DOMAIN students
        /\ students[student_id] = template

\* C6: enroll_fingerprint returns False, and never lets an exception escape,
\* when nothing was captured or the store cannot be reached, and it leaves the
\* table as it was.
C6_EnrollFailsWithValue ==
    [][(op' = "enroll_fingerprint" /\ (template' = NULL \/ connection # "open"))
            => (ret' = "False" /\ students' = students)]_vars

\* The largest score the scan observed, 0.0 when it observed none.
RECURSIVE MaxScore(_)
MaxScore(i) ==
    IF i = 0 THEN Zero
    ELSE IF HasScore(i) THEN RMax(MaxScore(i - 1), ScoreOf(i).val)
    ELSE MaxScore(i - 1)

\* C7: when no candidate exceeds the threshold, match_fingerprint returns nobody
\* and reports as best score the maximum score it observed.
C7_BestScoreReported ==
    (Fetched /\ msg = "No matching fingerprint found") =>
        /\ ret = "None"
        /\ best_score = MaxScore(Len(results))

\* C8: a probe with no features matches nobody, whatever the store holds.
C8_EmptyProbeNoMatch ==
    (op = "match_fingerprint" /\ decode_features(template) = Returned(<<>>)) =>
        ret = "None"

\* An empty probe was scored against stored templates that have features.
C8_Witness ==
    /\ Fetched
    /\ decode_features(template) = Returned(<<>>)
    /\ Len(scored) = 2
    /\ \A i \in 1..Len(results) :
            decode_features(results[i].fingerprint_template).val # <<>>
    /\ ret = "None"

\* Every blob has an area above 50 (the template invariant).
ValidFeatures(fs) ==
    \A i \in 1..Len(fs) : "area" \in DOMAIN fs[i] /\ fs[i].area > 50

\* clamp(0.6 * countSimilarity + 0.4 * areaSimilarity, 0, 1) over integers:
\* with n the lengths and s the area sums, the means are s1/n1 and s2/n2.
FormulaScore(fs1, fs2) ==
    LET n1 == Len(fs1)
        n2 == Len(fs2)
        m1 == SumAreas(fs1) * n2
        m2 == SumAreas(fs2) * n1
        lo == IF n1 < n2 THEN n1 ELSE n2
        hi == IF n1 < n2 THEN n2 ELSE n1
        mx == IF m1 < m2 THEN m2 ELSE m1
        \* 0.6 * lo/hi + 0.4 * (1 - |m1 - m2| / mx), over the denominator 10 * hi * mx
        num == 6 * lo * mx + 4 * (mx - Abs(m1 - m2)) * hi
        den == 10 * hi * mx
    IN  IF num < 0 THEN Zero ELSE IF num > den THEN One ELSE Rat(num, den)

\* C9: for templates whose blobs all have area > 50 the score is defined, lies
\* in [0, 1] and is clamp(0.6 * countSimilarity + 0.4 * areaSimilarity, 0, 1).
C9_ScoreBounded ==
    (similarity # NoCall /\ ValidFeatures(features1) /\ ValidFeatures(features2)) =>
        /\ similarity.kind = "return"
        /\ RGe(similarity.val, Zero)
        /\ RGe(One, similarity.val)
        /\ similarity.val =
              IF features1 = <<>> \/ features2 = <<>> THEN Zero
              ELSE FormulaScore(features1, features2)

\* Two valid templates of different lengths and mean areas were scored.
C9_Witness ==
    /\ similarity # NoCall
    /\ ValidFeatures(features1) /\ ValidFeatures(features2)
    /\ Len(features1) = 1 /\ Len(features2) = 2
    /\ similarity.kind = "return"
    /\ RGt(similarity.val, Zero) /\ RLt(similarity.val, SevenTenths)

\* C10: the score is symmetric in its two arguments.
C10_ScoreSymmetric ==
    similarity # NoCall => similarity = calculate_similarity(features2, features1)

\* Two templates of different lengths were scored, with a score above 0.
C10_Witness ==
    /\ similarity # NoCall
    /\ Len(features1) < Len(features2)
    /\ similarity.kind = "return"
    /\ RGt(similarity.val, Zero)

====
